---- MODULE Spec2Model ----
(***************************************************************************)
(* A model of loglinter: the four content rules of package rules, the      *)
(* special-character fix, and the analyzer pass that extracts the message  *)
(* of a logging call and reports diagnostics.                              *)
(*                                                                         *)
(* A Go string is a sequence of code points; an invalid UTF-8 byte is the  *)
(* element BadByte, which every decoding step turns into RuneError.  A     *)
(* diagnostic text is the empty sequence (Go's "") or a tuple of its       *)
(* format string and its arguments.                                        *)
(***************************************************************************)
EXTENDS Integers, Sequences, FiniteSets, TLC

VARIABLES
    rule,          \* the rule function under evaluation
    pc,            \* "input" | "checked" | "fixed" | "rechecked"
    msg,           \* the message text handed to the rule
    allowedExtra,  \* cfg.AllowedSpecialChars handed to CheckSpecialChars
    fullExpr,      \* the raw expression text handed to CheckSensitive
    keywords,      \* the keyword list handed to CheckSensitive
    diag,          \* the rule's result for msg
    orig,          \* the message and its diagnostic before the fix was applied
    cfg,           \* the pass's *config.Config
    calls,         \* the call expressions the pass has visited, in order
    logCalls,      \* the logCall descriptors extractLogCall has yielded, in order
    reports,       \* the diagnostics handed to pass.Report, in order
    file,          \* what config.Load finds at its path
    loaded         \* the results of config.Load: [cfg, err]

ruleVars == <<rule, pc, msg, allowedExtra, fullExpr, keywords, diag, orig>>
passVars == <<cfg, calls, logCalls, reports>>
loadVars == <<file, loaded>>
vars ==
    <<rule, pc, msg, allowedExtra, fullExpr, keywords, diag, orig, cfg, calls, logCalls,
      reports, file, loaded>>

----------------------------------------------------------------------------
(* Bounds of the model *)

MaxLowerLen == 3
MaxEnglishLen == 3
MaxSpecialLen == 4
MaxPieces == 5
MaxCalls == 2

----------------------------------------------------------------------------
(* Strings *)

BadByte == -1
RuneError == 65533
MaxASCII == 127

\* for _, r := range s : invalid bytes decode to RuneError
Runes(s) == [i \in 1..Len(s) |-> IF s[i] = BadByte THEN RuneError ELSE s[i]]

\* strings.Contains
Contains(s, sub) ==
    \E i \in 0..(Len(s) - Len(sub)) : SubSeq(s, i + 1, i + Len(sub)) = sub

\* strings.ContainsRune
ContainsRune(s, r) == \E i \in 1..Len(s) : s[i] = r

\* strings.HasPrefix
HasPrefix(s, p) == Len(p) <= Len(s) /\ SubSeq(s, 1, Len(p)) = p

\* strings.ReplaceAll for a non-empty old: left to right, non-overlapping
RECURSIVE ReplaceAll(_, _, _)
ReplaceAll(s, old, new) ==
    IF Len(s) < Len(old) THEN s
    ELSE IF SubSeq(s, 1, Len(old)) = old
         THEN new \o ReplaceAll(SubSeq(s, Len(old) + 1, Len(s)), old, new)
         ELSE <<s[1]>> \o ReplaceAll(SubSeq(s, 2, Len(s)), old, new)

RECURSIVE Concat(_)
Concat(ss) == IF ss = <<>> THEN <<>> ELSE ss[1] \o Concat(Tail(ss))

\* all sequences over S of length at most n
SeqsUpTo(S, n) == UNION {[1..k -> S] : k \in 0..n}

----------------------------------------------------------------------------
(* package unicode.  The tables are exact on U+0000..U+00FF,               *)
(* U+01C4..U+01CC, U+0400..U+045F, U+2000..U+2027, U+2600..U+27BF,         *)
(* U+FFF0..U+FFFD, U+1F300..U+1F6D7 and U+1F900..U+1F9FF, the blocks the   *)
(* alphabets below are drawn from; the CJK, Arabic and Devanagari letters  *)
(* used are of category Lo and belong to none of the tables.               *)

\* unicode.IsUpper: category Lu
IsUpper(r) ==
    \/ r \in 65..90
    \/ r \in 192..222 /\ r # 215
    \/ r \in {452, 455, 458}
    \/ r \in 1024..1071

\* category Ll
IsLowerLetter(r) ==
    \/ r \in 97..122
    \/ r \in {181, 223}
    \/ r \in 224..255 /\ r # 247
    \/ r \in {454, 457, 460}
    \/ r \in 1072..1119

\* unicode.ToLower
ToLower(r) ==
    IF r \in 65..90 THEN r + 32
    ELSE IF r \in 192..222 /\ r # 215 THEN r + 32
    ELSE IF r \in {452, 455, 458} THEN r + 2
    ELSE IF r \in {453, 456, 459} THEN r + 1
    ELSE IF r \in 1024..1039 THEN r + 80
    ELSE IF r \in 1040..1071 THEN r + 32
    ELSE IF r = 8490 THEN 107
    ELSE r

\* unicode.IsSpace
IsSpace(r) == r \in {9, 10, 11, 12, 13, 32, 133, 160, 8232, 8233, 8239, 8287, 12288}
                 \/ r \in 8192..8202

\* unicode.IsDigit on Basic Latin
IsDigit(r) == r \in 48..57

\* unicode.IsPunct: categories Pc Pd Ps Pe Pi Pf Po
IsPunct(r) ==
    \/ r \in {33, 34, 35, 37, 38, 39, 40, 41, 42, 44, 45, 46, 47, 58, 59, 63, 64,
              91, 92, 93, 95, 123, 125}
    \/ r \in {161, 167, 171, 182, 183, 187, 191}
    \/ r \in 8208..8231
    \/ r \in 10088..10101

\* unicode.Is(unicode.So, r): Other_Symbol
IsSo(r) ==
    \/ r \in {166, 169, 174, 176}
    \/ r \in 9728..9838 \/ r \in 9840..10087 \/ r \in 10132..10175
    \/ r \in {65532, 65533}
    \/ r \in 127744..127994 \/ r \in 128000..128727 \/ r \in 129280..129535

\* unicode.IsSymbol: categories Sm Sc Sk So
IsSymbol(r) ==
    \/ r \in {36, 43, 60, 61, 62, 94, 96, 124, 126}
    \/ r \in {162, 163, 164, 165, 168, 172, 175, 177, 180, 184, 215, 247}
    \/ r = 9839
    \/ r \in 127995..127999
    \/ IsSo(r)

\* strings.ToLower
ToLowerStr(s) == [i \in 1..Len(s) |-> ToLower(Runes(s)[i])]

\* strings.TrimSpace
RECURSIVE TrimLeft(_)
TrimLeft(s) == IF s # <<>> /\ IsSpace(s[1]) THEN TrimLeft(Tail(s)) ELSE s

RECURSIVE TrimRight(_)
TrimRight(s) ==
    IF s # <<>> /\ IsSpace(s[Len(s)]) THEN TrimRight(SubSeq(s, 1, Len(s) - 1)) ELSE s

TrimSpace(s) == TrimRight(TrimLeft(s))

\* utf8.DecodeRuneInString: the first rune, RuneError for "" and for an invalid byte
DecodeRuneInString(s) ==
    IF s = <<>> THEN RuneError
    ELSE IF s[1] = BadByte THEN RuneError
    ELSE s[1]

----------------------------------------------------------------------------
(* Rule 1: CheckLowercase *)

MsgLowercase == "log message should start with a lowercase letter"

\* mutant: an ASCII-only upper-case test
CheckLowercase_AsciiOnly(m) ==
    LET t == TrimSpace(m)
        r == DecodeRuneInString(t)
    IN  IF t = <<>> THEN <<>>
        ELSE IF r = RuneError THEN <<>>
        ELSE IF r \in 65..90 THEN <<MsgLowercase>>
        ELSE <<>>

CheckLowercase(m) ==
    LET t == TrimSpace(m)
        r == DecodeRuneInString(t)
    IN  IF t = <<>> THEN <<>>
        ELSE IF r = RuneError THEN <<>>
        ELSE IF IsUpper(r) THEN <<MsgLowercase>>
        ELSE <<>>

----------------------------------------------------------------------------
(* Rule 2: CheckEnglish *)

MsgEnglish == "log message contains non-English characters (%s script, rune %q)"

isAllowedNonASCII(r) == r \in {8211, 8212, 8216, 8217, 8220, 8221, 8230}

\* mutant: the Cyrillic range opened one code point late
scriptName_LateCyrillic(r) ==
    IF r > 1024 /\ r <= 1279 THEN "Cyrillic"
    ELSE IF r >= 19968 /\ r <= 40959 THEN "CJK"
    ELSE IF r >= 1536 /\ r <= 1791 THEN "Arabic"
    ELSE IF r >= 2304 /\ r <= 2431 THEN "Devanagari"
    ELSE IF r >= 127744 /\ r <= 129791 THEN "Emoji"
    ELSE "non-Latin"

scriptName(r) ==
    IF r >= 1024 /\ r <= 1279 THEN "Cyrillic"
    ELSE IF r >= 19968 /\ r <= 40959 THEN "CJK"
    ELSE IF r >= 1536 /\ r <= 1791 THEN "Arabic"
    ELSE IF r >= 2304 /\ r <= 2431 THEN "Devanagari"
    ELSE IF r >= 127744 /\ r <= 129791 THEN "Emoji"
    ELSE "non-Latin"

RECURSIVE ScanEnglish(_, _)
ScanEnglish(rs, i) ==
    IF i > Len(rs) THEN <<>>
    ELSE IF rs[i] <= MaxASCII THEN ScanEnglish(rs, i + 1)
    ELSE IF isAllowedNonASCII(rs[i]) THEN ScanEnglish(rs, i + 1)
    ELSE <<MsgEnglish, scriptName(rs[i]), rs[i]>>

CheckEnglish(m) == ScanEnglish(Runes(m), 1)

----------------------------------------------------------------------------
(* Rule 3: CheckSpecialChars *)

MsgEmoji == "log message contains emoji or special Unicode symbol (rune %q)"
MsgForbidden == "log message contains forbidden special character %q"
MsgRepeated == "log message contains repeated punctuation %q"

\* "!@#$%^&*+=|\\<>?`~;'\""
defaultForbiddenASCII ==
    <<33, 64, 35, 36, 37, 94, 38, 42, 43, 61, 124, 92, 60, 62, 63, 96, 126, 59, 39, 34>>

buildForbiddenSet(allowed) ==
    {r \in {defaultForbiddenASCII[i] : i \in 1..Len(defaultForbiddenASCII)} :
        ~ContainsRune(Runes(allowed), r)}

isEmoji(r) ==
    \/ IsSo(r)
    \/ r >= 127744 /\ r <= 129791
    \/ r >= 9728 /\ r <= 10175
    \/ r >= 65024 /\ r <= 65039

\* "...", "!!", "??", "***"
RepeatedSeqs == <<(<<46, 46, 46>>), (<<33, 33>>), (<<63, 63>>), (<<42, 42, 42>>)>>

RECURSIVE ScanRepeated(_, _)
ScanRepeated(m, k) ==
    IF k > Len(RepeatedSeqs) THEN <<>>
    ELSE IF Contains(m, RepeatedSeqs[k]) THEN <<MsgRepeated, RepeatedSeqs[k]>>
    ELSE ScanRepeated(m, k + 1)

checkRepeatedPunctuation(m) == ScanRepeated(m, 1)

RECURSIVE ScanSpecial(_, _, _)
ScanSpecial(rs, i, forbidden) ==
    IF i > Len(rs) THEN <<>>
    ELSE IF isEmoji(rs[i]) THEN <<MsgEmoji, rs[i]>>
    ELSE IF /\ (rs[i] <= MaxASCII /\ IsPunct(rs[i])) \/ IsSymbol(rs[i])
            /\ rs[i] \in forbidden
         THEN <<MsgForbidden, rs[i]>>
    ELSE ScanSpecial(rs, i + 1, forbidden)

\* mutant: the repeated-punctuation check run before the per-character scan
CheckSpecialChars_RepeatedFirst(m, allowed) ==
    LET d == checkRepeatedPunctuation(m)
    IN  IF d # <<>> THEN d
        ELSE ScanSpecial(Runes(m), 1, buildForbiddenSet(allowed))

CheckSpecialChars(m, allowed) ==
    LET d == ScanSpecial(Runes(m), 1, buildForbiddenSet(allowed))
    IN  IF d # <<>> THEN d ELSE checkRepeatedPunctuation(m)

----------------------------------------------------------------------------
(* The special-character fix *)

\* '-', '_', '/', ':', '.', ',', ' '
SafePunct == {45, 95, 47, 58, 46, 44, 32}

RECURSIVE CleanRunes(_, _)
CleanRunes(rs, allowed) ==
    IF rs = <<>> THEN <<>>
    ELSE LET r == rs[1]
             rest == CleanRunes(Tail(rs), allowed)
         IN  IF r > MaxASCII THEN rest
             ELSE IF ContainsRune(Runes(allowed), r) THEN <<r>> \o rest
             ELSE IF ContainsRune(defaultForbiddenASCII, r) THEN rest
             ELSE IF r \in SafePunct THEN <<r>> \o rest
             ELSE IF IsPunct(r) \/ IsSymbol(r) THEN rest
             ELSE <<r>> \o rest

\* mutant: only the non-ASCII runes are dropped
cleanSpecialMessage_NonASCIIOnly(m, allowed) ==
    SelectSeq(Runes(m), LAMBDA r : r <= MaxASCII)

cleanSpecialMessage(m, allowed) ==
    IF m = <<>> THEN m ELSE CleanRunes(Runes(m), allowed)

----------------------------------------------------------------------------
(* Rule 4: CheckSensitive *)

MsgSensitiveText ==
    "log message may contain sensitive data (keyword %q found in message text)"
MsgSensitiveExpr ==
    "log message may contain sensitive data (keyword %q found in argument expression)"

\* the separator test of tokenizeWords, negated: [a-z0-9_]
IsWordRune(r) == r \in 97..122 \/ r \in 48..57 \/ r = 95

\* strings.FieldsFunc: the maximal runs of non-separator runes
RECURSIVE Fields(_, _, _)
Fields(rs, cur, acc) ==
    IF rs = <<>> THEN (IF cur = <<>> THEN acc ELSE Append(acc, cur))
    ELSE IF IsWordRune(rs[1]) THEN Fields(Tail(rs), Append(cur, rs[1]), acc)
    ELSE Fields(Tail(rs), <<>>, IF cur = <<>> THEN acc ELSE Append(acc, cur))

\* mutant: the message split at spaces only
RECURSIVE SpaceFields(_, _, _)
SpaceFields(rs, cur, acc) ==
    IF rs = <<>> THEN (IF cur = <<>> THEN acc ELSE Append(acc, cur))
    ELSE IF rs[1] # 32 THEN SpaceFields(Tail(rs), Append(cur, rs[1]), acc)
    ELSE SpaceFields(Tail(rs), <<>>, IF cur = <<>> THEN acc ELSE Append(acc, cur))

tokenizeWords_AtSpaces(s) == SpaceFields(Runes(s), <<>>, <<>>)

tokenizeWords(s) == Fields(Runes(s), <<>>, <<>>)

RECURSIVE Strip(_, _, _, _)
Strip(rs, inDouble, inRaw, escape) ==
    IF rs = <<>> THEN <<>>
    ELSE LET r == rs[1]
             rest == Tail(rs)
         IN  IF inRaw
             THEN IF r = 96 THEN <<32>> \o Strip(rest, inDouble, FALSE, escape)
                  ELSE Strip(rest, inDouble, TRUE, escape)
             ELSE IF inDouble
             THEN IF escape THEN Strip(rest, TRUE, FALSE, FALSE)
                  ELSE IF r = 92 THEN Strip(rest, TRUE, FALSE, TRUE)
                  ELSE IF r = 34 THEN <<32>> \o Strip(rest, FALSE, FALSE, FALSE)
                  ELSE Strip(rest, TRUE, FALSE, FALSE)
             ELSE IF r = 34 THEN <<32>> \o Strip(rest, TRUE, FALSE, escape)
             ELSE IF r = 96 THEN <<32>> \o Strip(rest, FALSE, TRUE, escape)
             ELSE <<r>> \o Strip(rest, FALSE, FALSE, escape)

\* mutant: literal contents are left in the expression
stripStringLiterals_Nothing(expr) == Runes(expr)

stripStringLiterals(expr) == Strip(Runes(expr), FALSE, FALSE, FALSE)

safeNext ==
    {<<111, 107>> (* ok *),
     <<115, 117, 99, 99, 101, 115, 115>> (* success *),
     <<115, 117, 99, 99, 101, 115, 115, 102, 117, 108>> (* successful *),
     <<115, 117, 99, 99, 101, 101, 100, 101, 100>> (* succeeded *),
     <<102, 97, 105, 108, 101, 100>> (* failed *),
     <<102, 97, 105, 108, 117, 114, 101>> (* failure *),
     <<101, 114, 114, 111, 114>> (* error *),
     <<105, 110, 118, 97, 108, 105, 100>> (* invalid *),
     <<109, 105, 115, 115, 105, 110, 103>> (* missing *),
     <<112, 114, 101, 115, 101, 110, 116>> (* present *),
     <<101, 110, 97, 98, 108, 101, 100>> (* enabled *),
     <<100, 105, 115, 97, 98, 108, 101, 100>> (* disabled *),
     <<99, 114, 101, 97, 116, 101, 100>> (* created *),
     <<103, 101, 110, 101, 114, 97, 116, 101, 100>> (* generated *),
     <<114, 101, 102, 114, 101, 115, 104, 101, 100>> (* refreshed *),
     <<101, 120, 112, 105, 114, 101, 100>> (* expired *),
     <<118, 97, 108, 105, 100, 97, 116, 101, 100>> (* validated *),
     <<99, 111, 109, 112, 108, 101, 116, 101, 100>> (* completed *),
     <<114, 101, 118, 111, 107, 101, 100>> (* revoked *),
     <<114, 111, 116, 97, 116, 101, 100>> (* rotated *),
     <<117, 112, 100, 97, 116, 101, 100>> (* updated *),
     <<97, 117, 116, 104, 111, 114, 105, 122, 101, 100>> (* authorized *),
     <<117, 110, 97, 117, 116, 104, 111, 114, 105, 122, 101, 100>> (* unauthorized *)}

\* the inner loop over tokens, from index i: TRUE when it returns the
\* "found in message text" diagnostic, FALSE when it ends or breaks
RECURSIVE MessageTextLoop(_, _, _)
MessageTextLoop(tokens, i, kw) ==
    IF i > Len(tokens) THEN FALSE
    ELSE IF tokens[i] # kw THEN MessageTextLoop(tokens, i + 1, kw)
    ELSE IF i + 1 <= Len(tokens) /\ tokens[i + 1] \in safeNext THEN FALSE
    ELSE TRUE

\* mutant: a keyword with nothing left to compare does not match
ExprTextHit_NonEmpty(lowerExpr, kw) ==
    LET exprNoStrings == stripStringLiterals(lowerExpr)
        normalized == ReplaceAll(ReplaceAll(exprNoStrings, <<95>>, <<>>), <<32>>, <<>>)
        kwNorm == ReplaceAll(kw, <<95>>, <<>>)
    IN  kwNorm # <<>> /\ Contains(normalized, kwNorm)

\* mutant: the keyword is compared with its underscores
ExprTextHit_KeepUnderscores(lowerExpr, kw) ==
    LET exprNoStrings == stripStringLiterals(lowerExpr)
        normalized == ReplaceAll(ReplaceAll(exprNoStrings, <<95>>, <<>>), <<32>>, <<>>)
    IN  Contains(normalized, kw)

\* the expression-text check for one lower-cased keyword
ExprTextHit(lowerExpr, kw) ==
    LET exprNoStrings == stripStringLiterals(lowerExpr)
        normalized == ReplaceAll(ReplaceAll(exprNoStrings, <<95>>, <<>>), <<32>>, <<>>)
        kwNorm == ReplaceAll(kw, <<95>>, <<>>)
    IN  Contains(normalized, kwNorm)

\* mutant: the expression text is checked before the message text
RECURSIVE KeywordLoop_ExprFirst(_, _, _, _)
KeywordLoop_ExprFirst(kws, k, tokens, lowerExpr) ==
    IF k > Len(kws) THEN <<>>
    ELSE LET kw == ToLowerStr(kws[k])
         IN  IF ExprTextHit(lowerExpr, kw) THEN <<MsgSensitiveExpr, kw>>
             ELSE IF MessageTextLoop(tokens, 1, kw) THEN <<MsgSensitiveText, kw>>
             ELSE KeywordLoop_ExprFirst(kws, k + 1, tokens, lowerExpr)

RECURSIVE KeywordLoop(_, _, _, _)
KeywordLoop(kws, k, tokens, lowerExpr) ==
    IF k > Len(kws) THEN <<>>
    ELSE LET kw == ToLowerStr(kws[k])
         IN  IF MessageTextLoop(tokens, 1, kw) THEN <<MsgSensitiveText, kw>>
             ELSE IF ExprTextHit(lowerExpr, kw) THEN <<MsgSensitiveExpr, kw>>
             ELSE KeywordLoop(kws, k + 1, tokens, lowerExpr)

CheckSensitive(m, expr, kws) ==
    LET lower == ToLowerStr(m)
        lowerExpr == ToLowerStr(expr)
        tokens == tokenizeWords(lower)
    IN  KeywordLoop(kws, 1, tokens, lowerExpr)

----------------------------------------------------------------------------
(* package config *)

RuleLowercase == "lowercase"
RuleEnglish == "english"
RuleSpecial == "special"
RuleSensitive == "sensitive"

defaultSensitiveKeywords ==
    <<(<<112, 97, 115, 115, 119, 111, 114, 100>>) (* password *),
      (<<112, 97, 115, 115, 119, 100>>) (* passwd *),
      (<<115, 101, 99, 114, 101, 116>>) (* secret *),
      (<<116, 111, 107, 101, 110>>) (* token *),
      (<<97, 112, 105, 95, 107, 101, 121>>) (* api_key *),
      (<<97, 112, 105, 107, 101, 121>>) (* apikey *),
      (<<97, 117, 116, 104>>) (* auth *),
      (<<99, 114, 101, 100, 101, 110, 116, 105, 97, 108>>) (* credential *),
      (<<112, 114, 105, 118, 97, 116, 101, 95, 107, 101, 121>>) (* private_key *),
      (<<97, 99, 99, 101, 115, 115, 95, 107, 101, 121>>) (* access_key *),
      (<<115, 101, 115, 115, 105, 111, 110>>) (* session *),
      (<<106, 119, 116>>) (* jwt *),
      (<<98, 101, 97, 114, 101, 114>>) (* bearer *),
      (<<115, 115, 110>>) (* ssn *),
      (<<99, 114, 101, 100, 105, 116, 95, 99, 97, 114, 100>>) (* credit_card *)>>

\* Rules is a Go map: nil, or a function m on the names it holds
DefaultConfig ==
    [Rules |-> [nil |-> FALSE,
                m |-> [n \in {RuleLowercase, RuleEnglish, RuleSpecial, RuleSensitive}
                         |-> TRUE]],
     SensitiveKeywords |-> defaultSensitiveKeywords,
     AllowedSpecialChars |-> <<>>]

\* mutant: a name the map does not hold counts as disabled
IsRuleEnabled_UnknownOff(c, name) ==
    IF c.Rules.nil THEN TRUE
    ELSE IF name \notin DOMAIN c.Rules.m THEN FALSE
    ELSE c.Rules.m[name]

\* (*Config).IsRuleEnabled; a nil Rules map is [nil |-> TRUE, ...]
IsRuleEnabled(c, name) ==
    IF c.Rules.nil THEN TRUE
    ELSE IF name \notin DOMAIN c.Rules.m THEN TRUE
    ELSE c.Rules.m[name]

\* What Load finds at path.  kind is "missing" (os.ReadFile fails with an
\* error os.IsNotExist accepts), "unreadable" (it fails otherwise), "invalid"
\* (yaml.Unmarshal fails) or "valid" (yaml.Unmarshal fills the three fields
\* of the temporary struct, a key the file lacks leaving the zero value).
FileOf(kind, rules, kws, allowed) ==
    [kind |-> kind, Rules |-> rules, SensitiveKeywords |-> kws,
     AllowedSpecialChars |-> allowed]

NoFile == FileOf("missing", [nil |-> TRUE, m |-> <<>>], <<>>, <<>>)

ErrReading == "loglinter: reading config %q: %w"
ErrParsing == "loglinter: parsing config %q: %w"

\* the loop cfg.Rules[k] = v over the file's map
MergeRules(def, fileRules) ==
    [nil |-> FALSE,
     m |-> [n \in (DOMAIN def.m) \cup (DOMAIN fileRules.m) |->
               IF n \in DOMAIN fileRules.m THEN fileRules.m[n] ELSE def.m[n]]]

\* mutant: the file's keywords replace the defaults
Load_ReplaceKeywords(f) ==
    IF f.kind = "missing" THEN [cfg |-> <<DefaultConfig>>, err |-> <<>>]
    ELSE IF f.kind = "unreadable" THEN [cfg |-> <<>>, err |-> <<ErrReading>>]
    ELSE IF f.kind = "invalid" THEN [cfg |-> <<>>, err |-> <<ErrParsing>>]
    ELSE [cfg |-> <<[Rules |-> IF f.Rules.nil THEN DefaultConfig.Rules
                               ELSE MergeRules(DefaultConfig.Rules, f.Rules),
                     SensitiveKeywords |->
                         IF Len(f.SensitiveKeywords) > 0 THEN f.SensitiveKeywords
                         ELSE DefaultConfig.SensitiveKeywords,
                     AllowedSpecialChars |->
                         IF f.AllowedSpecialChars # <<>> THEN f.AllowedSpecialChars
                         ELSE DefaultConfig.AllowedSpecialChars]>>,
          err |-> <<>>]

\* Load: cfg is <<c>> for a pointer to c and <<>> for nil; err is <<>> for nil
Load(f) ==
    IF f.kind = "missing" THEN [cfg |-> <<DefaultConfig>>, err |-> <<>>]
    ELSE IF f.kind = "unreadable" THEN [cfg |-> <<>>, err |-> <<ErrReading>>]
    ELSE IF f.kind = "invalid" THEN [cfg |-> <<>>, err |-> <<ErrParsing>>]
    ELSE [cfg |-> <<[Rules |-> IF f.Rules.nil THEN DefaultConfig.Rules
                               ELSE MergeRules(DefaultConfig.Rules, f.Rules),
                     SensitiveKeywords |->
                         IF Len(f.SensitiveKeywords) > 0
                         THEN DefaultConfig.SensitiveKeywords \o f.SensitiveKeywords
                         ELSE DefaultConfig.SensitiveKeywords,
                     AllowedSpecialChars |->
                         IF f.AllowedSpecialChars # <<>> THEN f.AllowedSpecialChars
                         ELSE DefaultConfig.AllowedSpecialChars]>>,
          err |-> <<>>]

NotLoaded == [cfg |-> <<>>, err |-> <<>>]

----------------------------------------------------------------------------
(* package analyzer: classification of a call expression *)

\* An ast.Expr is a record with a kind:
\*   BasicLit     [litKind, value]     value is the token's source text
\*   Ident        [name, obj, val]     obj is what TypesInfo.Uses holds for it:
\*                                     "const", "var" or "none"; val is the
\*                                     constant's string value
\*   BinaryExpr   [op, x, y]
\*   ParenExpr    [x]
\*   CallExpr     [fun, args]
\*   SelectorExpr [x, sel]             sel is an Ident
Lit(v) == [kind |-> "BasicLit", litKind |-> "STRING", value |-> v]
IntLit(v) == [kind |-> "BasicLit", litKind |-> "INT", value |-> v]
CharLit(v) == [kind |-> "BasicLit", litKind |-> "CHAR", value |-> v]
Var(n) == [kind |-> "Ident", name |-> n, obj |-> "var", val |-> <<>>]
Const(n, v) == [kind |-> "Ident", name |-> n, obj |-> "const", val |-> v]
Binary(o, a, b) == [kind |-> "BinaryExpr", op |-> o, x |-> a, y |-> b]
Paren(a) == [kind |-> "ParenExpr", x |-> a]
Selector(a, n) == [kind |-> "SelectorExpr", x |-> a, sel |-> Var(n)]
Call(f, as) == [kind |-> "CallExpr", fun |-> f, args |-> as]

isLogMethod(name) ==
    name \in {"Info", "Warn", "Error", "Debug",
              "Fatal", "Panic", "DPanic",
              "InfoCtx", "WarnCtx", "ErrorCtx", "DebugCtx",
              "InfoContext", "WarnContext", "ErrorContext", "DebugContext",
              "Print", "Printf", "Println",
              "Fatalf", "Fatalln",
              "Panicf", "Panicln"}

PkgLog == <<108, 111, 103>>  \* "log"

\* "log/slog", "go.uber.org/zap", "go.uber.org/zap/zaptest", "log"
supportedPkgPrefixes ==
    <<(<<108, 111, 103, 47, 115, 108, 111, 103>>),
      (<<103, 111, 46, 117, 98, 101, 114, 46, 111, 114, 103, 47, 122, 97, 112>>),
      (<<103, 111, 46, 117, 98, 101, 114, 46, 111, 114, 103, 47, 122, 97, 112, 47,
         122, 97, 112, 116, 101, 115, 116>>),
      PkgLog>>

isSupportedPackage(pkgPath) ==
    \/ \E i \in 1..Len(supportedPkgPrefixes) :
          \/ pkgPath = supportedPkgPrefixes[i]
          \/ HasPrefix(pkgPath, supportedPkgPrefixes[i] \o <<47>>)
    \/ pkgPath = PkgLog

\* the callee of a call: sel.Sel.Name is method; uses is FALSE when
\* TypesInfo.Uses has no entry for sel.Sel; pkg is the declaring package's
\* path, <<>> when the object has no package
pkgPathOf(callee) == IF callee.hasPkg THEN callee.pkg ELSE <<>>

\* mutant: any method of a supported package counts
isSupportedLogMethod_AnyMethod(callee) ==
    IF ~callee.uses THEN FALSE
    ELSE isSupportedPackage(pkgPathOf(callee))

isSupportedLogMethod(callee) ==
    IF ~isLogMethod(callee.method) THEN FALSE
    ELSE IF ~callee.uses THEN FALSE
    ELSE isSupportedPackage(pkgPathOf(callee))

messageArgIndex(callee, args) == 0

----------------------------------------------------------------------------
(* package analyzer: the message of a call *)

\* strings.Trim(s, cutset) for a one-character cutset
RECURSIVE TrimLeftRune(_, _)
TrimLeftRune(s, c) == IF s # <<>> /\ s[1] = c THEN TrimLeftRune(Tail(s), c) ELSE s

RECURSIVE TrimRightRune(_, _)
TrimRightRune(s, c) ==
    IF s # <<>> /\ s[Len(s)] = c THEN TrimRightRune(SubSeq(s, 1, Len(s) - 1), c) ELSE s

Trim(s, c) == TrimRightRune(TrimLeftRune(s, c), c)

TrimPrefix(s, p) == IF HasPrefix(s, p) THEN SubSeq(s, Len(p) + 1, Len(s)) ELSE s

TrimSuffix(s, p) ==
    IF Len(p) <= Len(s) /\ SubSeq(s, Len(s) - Len(p) + 1, Len(s)) = p
    THEN SubSeq(s, 1, Len(s) - Len(p))
    ELSE s

\* the value collectStringParts appends for a string literal token
UnquoteLit(value) ==
    LET s0 == Trim(value, 96)
        s1 == TrimPrefix(s0, <<34>>)
        s2 == TrimSuffix(s1, <<34>>)
        s3 == ReplaceAll(s2, <<92, 34>>, <<34>>)
        s4 == ReplaceAll(s3, <<92, 92>>, <<92>>)
        s5 == ReplaceAll(s4, <<92, 110>>, <<10>>)
    IN  ReplaceAll(s5, <<92, 116>>, <<9>>)

\* constant.Value.String() of a string constant: its quoted form
RECURSIVE EscapeGo(_)
EscapeGo(v) ==
    IF v = <<>> THEN <<>>
    ELSE (CASE v[1] = 34 -> <<92, 34>>
            [] v[1] = 92 -> <<92, 92>>
            [] v[1] = 10 -> <<92, 110>>
            [] v[1] = 9 -> <<92, 116>>
            [] OTHER -> <<v[1]>>) \o EscapeGo(Tail(v))

ConstString(v) == <<34>> \o EscapeGo(v) \o <<34>>

\* mutant: the right operand of + is collected before the left one
RECURSIVE collectStringParts_RightFirst(_)
collectStringParts_RightFirst(e) ==
    CASE e.kind = "BasicLit" ->
            IF e.litKind = "STRING" THEN <<UnquoteLit(e.value)>> ELSE <<>>
      [] e.kind = "BinaryExpr" ->
            IF e.op = "ADD"
            THEN collectStringParts_RightFirst(e.y) \o collectStringParts_RightFirst(e.x)
            ELSE <<>>
      [] e.kind = "Ident" ->
            IF e.obj = "const" THEN <<Trim(ConstString(e.val), 34)>> ELSE <<>>
      [] e.kind = "ParenExpr" -> collectStringParts_RightFirst(e.x)
      [] OTHER -> <<>>

RECURSIVE collectStringParts(_)
collectStringParts(e) ==
    CASE e.kind = "BasicLit" ->
            IF e.litKind = "STRING" THEN <<UnquoteLit(e.value)>> ELSE <<>>
      [] e.kind = "BinaryExpr" ->
            IF e.op = "ADD"
            THEN collectStringParts(e.x) \o collectStringParts(e.y)
            ELSE <<>>
      [] e.kind = "Ident" ->
            IF e.obj = "const" THEN <<Trim(ConstString(e.val), 34)>> ELSE <<>>
      [] e.kind = "ParenExpr" -> collectStringParts(e.x)
      [] OTHER -> <<>>

\* sourceFragment returns "" on every path
sourceFragment(e) == <<>>

\* ast.Inspect in depth-first order, writing literal tokens and identifier names
RECURSIVE InspectText(_)
InspectText(e) ==
    CASE e.kind = "BasicLit" -> e.value
      [] e.kind = "Ident" -> e.name
      [] e.kind = "BinaryExpr" -> InspectText(e.x) \o InspectText(e.y)
      [] e.kind = "ParenExpr" -> InspectText(e.x)
      [] e.kind = "SelectorExpr" -> InspectText(e.x) \o InspectText(e.sel)
      [] e.kind = "CallExpr" ->
            InspectText(e.fun) \o Concat([i \in 1..Len(e.args) |-> InspectText(e.args[i])])
      [] OTHER -> <<>>

exprToString(e) ==
    LET src == sourceFragment(e)
    IN  IF src # <<>> THEN src ELSE InspectText(e)

extractStringValue(e) ==
    [literal |-> Concat(collectStringParts(e)), fullExpr |-> exprToString(e)]

\* a call expression of the file: [isSelector, callee, args]; n is its place
\* in the file, which stands for its position
extractLogCall(call, n) ==
    IF ~call.isSelector THEN [ok |-> FALSE]
    ELSE IF ~isSupportedLogMethod(call.callee) THEN [ok |-> FALSE]
    ELSE LET msgIdx == messageArgIndex(call.callee, call.args)
         IN  IF msgIdx < 0 \/ msgIdx >= Len(call.args) THEN [ok |-> FALSE]
             ELSE LET msgArg == call.args[msgIdx + 1]
                      v == extractStringValue(msgArg)
                  IN  [ok |-> TRUE,
                       pos |-> <<n, "call">>,
                       msgArg |-> msgArg,
                       msgLiteral |-> v.literal,
                       fullExpr |-> v.fullExpr]

----------------------------------------------------------------------------
(* package analyzer: rule execution and suggested fixes *)

\* the position range of the message argument of the n-th call
ArgPos(lc) == <<lc.pos[1], "msgArg.Pos">>
ArgEnd(lc) == <<lc.pos[1], "msgArg.End">>

lowerRune(r) == IF r >= 65 /\ r <= 90 THEN r + 32 ELSE r

FixLowercaseMessage == "lowercase first letter of log message"
FixSpecialMessage == "remove emoji and noisy special characters from log message"

IsStringLit(e) == e.kind = "BasicLit" /\ e.litKind = "STRING"

\* mutant: the replacement text written without the literal's delimiters
suggestLowercaseFix_NoQuote(lc, m) ==
    IF m = <<>> THEN <<>>
    ELSE IF ~IsStringLit(lc.msgArg) THEN <<>>
    ELSE LET runes == Runes(m)
             fixed == <<lowerRune(runes[1])>> \o Tail(runes)
         IN  IF fixed = m THEN <<>>
             ELSE <<[Message |-> FixLowercaseMessage,
                     TextEdits |-> <<[Pos |-> ArgPos(lc), End |-> ArgEnd(lc),
                                      NewText |-> fixed]>>]>>

suggestLowercaseFix(lc, m) ==
    IF m = <<>> THEN <<>>
    ELSE IF ~IsStringLit(lc.msgArg) THEN <<>>
    ELSE LET runes == Runes(m)
             fixed == <<lowerRune(runes[1])>> \o Tail(runes)
             quote == <<lc.msgArg.value[1]>>
         IN  IF fixed = m THEN <<>>
             ELSE <<[Message |-> FixLowercaseMessage,
                     TextEdits |-> <<[Pos |-> ArgPos(lc), End |-> ArgEnd(lc),
                                      NewText |-> quote \o fixed \o quote]>>]>>

\* mutant: the special-character fix lower-cases the first letter as well
suggestSpecialFix_AlsoLowercase(lc, m, allowed) ==
    IF m = <<>> THEN <<>>
    ELSE IF ~IsStringLit(lc.msgArg) THEN <<>>
    ELSE LET cleaned == cleanSpecialMessage(m, allowed)
             fixed == IF cleaned = <<>> THEN cleaned
                      ELSE <<lowerRune(cleaned[1])>> \o Tail(cleaned)
             quote == <<lc.msgArg.value[1]>>
         IN  IF fixed = m THEN <<>>
             ELSE <<[Message |-> FixSpecialMessage,
                     TextEdits |-> <<[Pos |-> ArgPos(lc), End |-> ArgEnd(lc),
                                      NewText |-> quote \o fixed \o quote]>>]>>

\* mutant: the fix is offered for every shape of message argument
suggestSpecialFix_AnyExpr(lc, m, allowed) ==
    IF m = <<>> THEN <<>>
    ELSE LET fixed == cleanSpecialMessage(m, allowed)
         IN  IF fixed = m THEN <<>>
             ELSE <<[Message |-> FixSpecialMessage,
                     TextEdits |-> <<[Pos |-> ArgPos(lc), End |-> ArgEnd(lc),
                                      NewText |-> <<34>> \o fixed \o <<34>>]>>]>>

suggestSpecialFix(lc, m, allowed) ==
    IF m = <<>> THEN <<>>
    ELSE IF ~IsStringLit(lc.msgArg) THEN <<>>
    ELSE LET fixed == cleanSpecialMessage(m, allowed)
             quote == <<lc.msgArg.value[1]>>
         IN  IF fixed = m THEN <<>>
             ELSE <<[Message |-> FixSpecialMessage,
                     TextEdits |-> <<[Pos |-> ArgPos(lc), End |-> ArgEnd(lc),
                                      NewText |-> quote \o fixed \o quote]>>]>>

Diagnostic(lc, text, fixes) ==
    [Pos |-> ArgPos(lc), End |-> ArgEnd(lc), Message |-> text, SuggestedFixes |-> fixes]

\* mutant: the sensitive-keyword rule runs first
analyseCall_SensitiveFirst(c, lc) ==
    LET m == lc.msgLiteral
        d1 == CheckLowercase(m)
        d2 == CheckEnglish(m)
        d3 == CheckSpecialChars(m, c.AllowedSpecialChars)
        d4 == CheckSensitive(m, lc.fullExpr, c.SensitiveKeywords)
    IN  (IF IsRuleEnabled(c, RuleSensitive) /\ d4 # <<>>
         THEN <<Diagnostic(lc, d4, <<>>)>> ELSE <<>>)
        \o
        (IF IsRuleEnabled(c, RuleLowercase) /\ d1 # <<>>
         THEN <<Diagnostic(lc, d1, suggestLowercaseFix(lc, m))>> ELSE <<>>)
        \o
        (IF IsRuleEnabled(c, RuleEnglish) /\ d2 # <<>>
         THEN <<Diagnostic(lc, d2, <<>>)>> ELSE <<>>)
        \o
        (IF IsRuleEnabled(c, RuleSpecial) /\ d3 # <<>>
         THEN <<Diagnostic(lc, d3, suggestSpecialFix(lc, m, c.AllowedSpecialChars))>>
         ELSE <<>>)

\* the diagnostics analyseCall hands to reportDiagnostic, in order
analyseCall(c, lc) ==
    LET m == lc.msgLiteral
        d1 == CheckLowercase(m)
        d2 == CheckEnglish(m)
        d3 == CheckSpecialChars(m, c.AllowedSpecialChars)
        d4 == CheckSensitive(m, lc.fullExpr, c.SensitiveKeywords)
    IN  (IF IsRuleEnabled(c, RuleLowercase) /\ d1 # <<>>
         THEN <<Diagnostic(lc, d1, suggestLowercaseFix(lc, m))>> ELSE <<>>)
        \o
        (IF IsRuleEnabled(c, RuleEnglish) /\ d2 # <<>>
         THEN <<Diagnostic(lc, d2, <<>>)>> ELSE <<>>)
        \o
        (IF IsRuleEnabled(c, RuleSpecial) /\ d3 # <<>>
         THEN <<Diagnostic(lc, d3, suggestSpecialFix(lc, m, c.AllowedSpecialChars))>>
         ELSE <<>>)
        \o
        (IF IsRuleEnabled(c, RuleSensitive) /\ d4 # <<>>
         THEN <<Diagnostic(lc, d4, <<>>)>> ELSE <<>>)

----------------------------------------------------------------------------
(* The rule functions applied to bounded inputs *)

\* a A space 1 ! CYRILLIC-ZE-upper cyrillic-ze-lower U-diaeresis-upper
\* titlecase-Dz-caron invalid-byte
LowerAlphabet == {97, 65, 32, 49, 33, 1047, 1079, 220, 453, BadByte}

\* a DEL U+0080 e-acute en-dash ellipsis U+03FF U+0400 U+04FF U+0500
\* CJK U+4E2D, Arabic U+0627, Devanagari U+0915, rocket U+1F680
EnglishAlphabet ==
    {97, 127, 128, 233, 8211, 8230, 1023, 1024, 1279, 1280, 20013, 1575, 2325, 128640}

\* a ! . * ( rocket U+1F680, multiplication sign U+00D7
SpecialAlphabet == {97, 33, 46, 42, 40, 128640, 215}

\* "", "!", ".", "*", the rocket, "!*"
AllowedExtras == {<<>>, <<33>>, <<46>>, <<42>>, <<128640>>, <<33, 42>>}

\* "token", " ", "ok", "s", "Auth"
Pieces == {<<116, 111, 107, 101, 110>>, <<32>>, <<111, 107>>, <<115>>, <<65, 117, 116, 104>>}

\* the source text of the double-quoted literal whose content is m
Quote(m) == <<34>> \o m \o <<34>>

\* jwtToken, "token", "x"apiKey, password
IdentExprs ==
    {<<106, 119, 116, 84, 111, 107, 101, 110>>,
     <<34, 116, 111, 107, 101, 110, 34>>,
     <<34, 120, 34, 97, 112, 105, 75, 101, 121>>,
     <<112, 97, 115, 115, 119, 111, 114, 100>>}

\* the raw expressions tried with message m: none, the literal of m itself,
\* and for the short messages the expressions that carry identifiers
SensitiveExprs(m) ==
    {<<>>, Quote(m)} \cup (IF Len(m) <= MaxPieces THEN IdentExprs ELSE {})

\* [], [_], [token], [auth, token], [TOKEN], [api key], [token, ""], the
\* defaults
KeywordLists ==
    {<<>>,
     <<(<<116, 111, 107, 101, 110>>), <<>>>>,
     <<(<<97, 112, 105, 32, 107, 101, 121>>)>>,
     <<(<<95>>)>>,
     <<(<<116, 111, 107, 101, 110>>)>>,
     <<(<<97, 117, 116, 104>>), (<<116, 111, 107, 101, 110>>)>>,
     <<(<<84, 79, 75, 69, 78>>)>>,
     defaultSensitiveKeywords}

InitPass ==
    /\ cfg = DefaultConfig
    /\ calls = <<>>
    /\ logCalls = <<>>
    /\ reports = <<>>
    /\ file = NoFile
    /\ loaded = NotLoaded

InitRules ==
    /\ pc = "input"
    /\ diag = <<>>
    /\ orig = [msg |-> <<>>, diag |-> <<>>]
    /\ InitPass
    /\ \/ /\ rule = RuleLowercase
          /\ msg \in SeqsUpTo(LowerAlphabet, MaxLowerLen)
          /\ allowedExtra = <<>> /\ fullExpr = <<>> /\ keywords = <<>>
       \/ /\ rule = RuleEnglish
          /\ msg \in SeqsUpTo(EnglishAlphabet, MaxEnglishLen)
          /\ allowedExtra = <<>> /\ fullExpr = <<>> /\ keywords = <<>>
       \/ /\ rule = RuleSpecial
          /\ msg \in SeqsUpTo(SpecialAlphabet, MaxSpecialLen)
          /\ allowedExtra \in AllowedExtras
          /\ fullExpr = <<>> /\ keywords = <<>>
       \/ /\ rule = RuleSensitive
          /\ \E ps \in SeqsUpTo(Pieces, MaxPieces) : msg = Concat(ps)
          /\ fullExpr \in SensitiveExprs(msg)
          /\ keywords \in KeywordLists
          /\ allowedExtra = <<>>

ApplyLowercase ==
    /\ rule = RuleLowercase /\ pc = "input"
    /\ diag' = CheckLowercase(msg)
    /\ pc' = "checked"
    /\ UNCHANGED <<rule, msg, allowedExtra, fullExpr, keywords, orig, cfg, calls, logCalls, reports,
                   file, loaded>>

ApplyEnglish ==
    /\ rule = RuleEnglish /\ pc = "input"
    /\ diag' = CheckEnglish(msg)
    /\ pc' = "checked"
    /\ UNCHANGED <<rule, msg, allowedExtra, fullExpr, keywords, orig, cfg, calls, logCalls, reports,
                   file, loaded>>

\* the rule on the message, and again on the cleaned message
ApplySpecial ==
    /\ rule = RuleSpecial /\ pc \in {"input", "fixed"}
    /\ diag' = CheckSpecialChars(msg, allowedExtra)
    /\ pc' = IF pc = "input" THEN "checked" ELSE "rechecked"
    /\ UNCHANGED <<rule, msg, allowedExtra, fullExpr, keywords, orig, cfg, calls, logCalls, reports,
                   file, loaded>>

\* the fix computed for a violating message replaces the message
ApplyClean ==
    /\ rule = RuleSpecial /\ pc = "checked" /\ diag # <<>>
    /\ msg' = cleanSpecialMessage(msg, allowedExtra)
    /\ orig' = [msg |-> msg, diag |-> diag]
    /\ pc' = "fixed"
    /\ UNCHANGED <<rule, allowedExtra, fullExpr, keywords, diag, cfg, calls, logCalls, reports,
                   file, loaded>>

ApplySensitive ==
    /\ rule = RuleSensitive /\ pc = "input"
    /\ diag' = CheckSensitive(msg, fullExpr, keywords)
    /\ pc' = "checked"
    /\ UNCHANGED <<rule, msg, allowedExtra, fullExpr, keywords, orig, cfg, calls, logCalls, reports,
                   file, loaded>>

NextRules ==
    \/ ApplyLowercase
    \/ ApplyEnglish
    \/ ApplySpecial
    \/ ApplyClean
    \/ ApplySensitive

SpecRules == InitRules /\ [][NextRules]_vars

----------------------------------------------------------------------------
(* The analysis pass over the call expressions of a file *)

\* "Starting Server!!!"
LitStarting ==
    Lit(<<34, 83, 116, 97, 114, 116, 105, 110, 103, 32, 83, 101, 114, 118, 101, 114,
          33, 33, 33, 34>>)
\* "user password: "
LitUserPassword ==
    Lit(<<34, 117, 115, 101, 114, 32, 112, 97, 115, 115, 119, 111, 114, 100, 58, 32, 34>>)
\* "ok "
LitOk == Lit(<<34, 111, 107, 32, 34>>)
\* `Raw!`
LitRaw == Lit(<<96, 82, 97, 119, 33, 96>>)
\* "Зa" (CYRILLIC CAPITAL LETTER ZE, a)
LitCyrillic == Lit(<<34, 1047, 97, 34>>)
\* "a\"b"
LitEscaped == Lit(<<34, 97, 92, 34, 98, 34>>)
\* "A\"b"
LitUpperEscaped == Lit(<<34, 65, 92, 34, 98, 34>>)
\* " Hi"
LitLeadingSpace == Lit(<<34, 32, 72, 105, 34>>)
\* "a\\n": a, an escaped backslash, n
LitBackslashN == Lit(<<34, 97, 92, 92, 110, 34>>)
\* `"hi"`: a backtick literal whose content is quoted
LitRawQuoted == Lit(<<96, 34, 104, 105, 34, 96>>)
\* `a\n`: a backtick literal with a backslash
LitRawBackslash == Lit(<<96, 97, 92, 110, 96>>)
\* ""
LitEmpty == Lit(<<34, 34>>)
\* "authenticated "
LitAuthenticated ==
    Lit(<<34, 97, 117, 116, 104, 101, 110, 116, 105, 99, 97, 116, 101, 100, 32, 34>>)
\* "token ok"
LitTokenOk == Lit(<<34, 116, 111, 107, 101, 110, 32, 111, 107, 34>>)
\* string('"')
QuoteRune ==
    Call([kind |-> "Ident", name |-> <<115, 116, 114, 105, 110, 103>>, obj |-> "type",
          val |-> <<>>],
         <<CharLit(<<39, 34, 39>>)>>)
\* password, jwtToken, x
VarPassword == Var(<<112, 97, 115, 115, 119, 111, 114, 100>>)
VarJwtToken == Var(<<106, 119, 116, 84, 111, 107, 101, 110>>)
VarX == Var(<<120>>)
\* const Greeting = "Hello!"
ConstGreeting == Const(<<71, 114, 101, 101, 116, 105, 110, 103>>, <<72, 101, 108, 108, 111, 33>>)

\* the message arguments tried
MsgArgs ==
    {LitStarting, LitUserPassword, LitOk, LitRaw, LitCyrillic, LitEscaped, LitEmpty,
     LitUpperEscaped, LitLeadingSpace, LitBackslashN, LitRawQuoted, LitRawBackslash,
     VarPassword, VarX, ConstGreeting, IntLit(<<52, 50>>),
     Binary("ADD", LitUserPassword, VarPassword),
     Binary("ADD", LitOk, VarJwtToken),
     Binary("ADD", LitAuthenticated, VarJwtToken),
     Binary("ADD", QuoteRune, LitTokenOk),
     Binary("ADD", LitOk, Binary("ADD", QuoteRune, VarPassword)),
     Binary("ADD", LitCyrillic, Binary("ADD", LitStarting, VarPassword)),
     Binary("ADD", LitOk, LitStarting),
     Binary("ADD", ConstGreeting, LitOk),
     Binary("SUB", LitOk, VarX),
     Paren(LitStarting),
     Paren(Binary("ADD", LitOk, VarX)),
     Binary("ADD", Paren(Binary("ADD", ConstGreeting, VarX)), LitOk),
     Call(Selector(Var(<<102, 109, 116>>), <<83, 112, 114, 105, 110, 116, 102>>),
          <<LitStarting, VarPassword>>)}

Callee(method, pkg) == [method |-> method, uses |-> TRUE, hasPkg |-> TRUE, pkg |-> pkg]

PkgSlog == <<108, 111, 103, 47, 115, 108, 111, 103>>
PkgZap == <<103, 111, 46, 117, 98, 101, 114, 46, 111, 114, 103, 47, 122, 97, 112>>
PkgZapcore ==
    <<103, 111, 46, 117, 98, 101, 114, 46, 111, 114, 103, 47, 122, 97, 112, 99, 111, 114, 101>>
PkgLogrus ==
    <<103, 105, 116, 104, 117, 98, 46, 99, 111, 109, 47, 115, 105, 114, 117, 112, 115,
      101, 110, 47, 108, 111, 103, 114, 117, 115>>
PkgSyslog == <<108, 111, 103, 47, 115, 121, 115, 108, 111, 103>>
\* "logrus"
PkgLogrusBare == <<108, 111, 103, 114, 117, 115>>
PkgZaptest ==
    <<103, 111, 46, 117, 98, 101, 114, 46, 111, 114, 103, 47, 122, 97, 112, 47,
      122, 97, 112, 116, 101, 115, 116>>

MethodCall(callee, args) == [isSelector |-> TRUE, callee |-> callee, args |-> args]

\* the call expressions a file may hold: slog.Info on every message argument,
\* and one call of each other shape of callee
CallExprs ==
    {MethodCall(Callee("Info", PkgSlog), <<e>>) : e \in MsgArgs}
    \cup
    {MethodCall(Callee("Info", PkgSlog), <<>>),
     MethodCall(Callee("Info", PkgSlog), <<LitOk, LitStarting>>),
     MethodCall(Callee("Printf", PkgLog), <<LitStarting>>),
     MethodCall(Callee("Error", PkgZap), <<LitStarting>>),
     MethodCall(Callee("Infow", PkgZap), <<LitStarting>>),
     MethodCall(Callee("Info", PkgZapcore), <<LitStarting>>),
     MethodCall(Callee("Info", PkgLogrus), <<LitStarting>>),
     MethodCall(Callee("Info", PkgSyslog), <<LitStarting>>),
     MethodCall(Callee("Info", PkgLogrusBare), <<LitStarting>>),
     MethodCall(Callee("Info", PkgZaptest), <<LitStarting>>),
     MethodCall([method |-> "Info", uses |-> FALSE, hasPkg |-> FALSE, pkg |-> <<>>],
                <<LitStarting>>),
     MethodCall([method |-> "Error", uses |-> TRUE, hasPkg |-> FALSE, pkg |-> <<>>],
                <<LitStarting>>),
     [isSelector |-> FALSE,
      callee |-> [method |-> "println", uses |-> TRUE, hasPkg |-> FALSE, pkg |-> <<>>],
      args |-> <<LitStarting>>]}

\* the calls tried after the first call of the file
FollowingCalls ==
    {MethodCall(Callee("Info", PkgSlog), <<LitStarting>>),
     MethodCall(Callee("Info", PkgSlog), <<Binary("ADD", LitUserPassword, VarPassword)>>),
     MethodCall(Callee("Info", PkgSlog), <<LitOk>>),
     MethodCall(Callee("Info", PkgLogrus), <<LitStarting>>)}

FileCalls(n) == IF n = 0 THEN CallExprs ELSE FollowingCalls

RuleNames == {RuleLowercase, RuleEnglish, RuleSpecial, RuleSensitive}

\* the configurations tried: the default, "!" allowed, a nil Rules map, an
\* empty Rules map, a map that holds one rule only and switches it off, the
\* default map with one rule switched off, every rule switched off
Configs ==
    {DefaultConfig,
     [DefaultConfig EXCEPT !.AllowedSpecialChars = <<33>>],
     [DefaultConfig EXCEPT !.Rules = [nil |-> TRUE, m |-> <<>>]],
     [DefaultConfig EXCEPT !.Rules = [nil |-> FALSE, m |-> <<>>]]}
    \cup
    {[DefaultConfig EXCEPT !.Rules = [nil |-> FALSE, m |-> [n \in {off} |-> FALSE]]] :
        off \in RuleNames}
    \cup
    {[DefaultConfig EXCEPT !.Rules = [nil |-> FALSE, m |-> [n \in RuleNames |-> n # off]]] :
        off \in RuleNames}
    \cup
    {[DefaultConfig EXCEPT !.Rules = [nil |-> FALSE, m |-> [n \in RuleNames |-> FALSE]]]}

Init ==
    /\ rule = "none"
    /\ pc = "pass"
    /\ msg = <<>> /\ allowedExtra = <<>> /\ fullExpr = <<>> /\ keywords = <<>>
    /\ diag = <<>>
    /\ orig = [msg |-> <<>>, diag |-> <<>>]
    /\ cfg \in Configs
    /\ calls = <<>>
    /\ logCalls = <<>>
    /\ reports = <<>>
    /\ file = NoFile
    /\ loaded = NotLoaded

\* the callback of insp.Preorder on a call expression that is a logging call
VisitLogCall ==
    /\ pc = "pass" /\ Len(calls) < MaxCalls
    /\ \E call \in FileCalls(Len(calls)) :
          LET lc == extractLogCall(call, Len(calls) + 1)
          IN  /\ lc.ok
              /\ calls' = Append(calls, call)
              /\ logCalls' = Append(logCalls,
                                    [pos |-> lc.pos, msgArg |-> lc.msgArg,
                                     msgLiteral |-> lc.msgLiteral,
                                     fullExpr |-> lc.fullExpr])
              /\ reports' = reports \o analyseCall(cfg, lc)
    /\ UNCHANGED <<rule, pc, msg, allowedExtra, fullExpr, keywords, diag, orig, cfg,
                   file, loaded>>

\* the callback on any other call expression: nothing is reported
VisitOtherCall ==
    /\ pc = "pass" /\ Len(calls) < MaxCalls
    /\ \E call \in FileCalls(Len(calls)) :
          /\ ~extractLogCall(call, Len(calls) + 1).ok
          /\ calls' = Append(calls, call)
    /\ UNCHANGED <<rule, pc, msg, allowedExtra, fullExpr, keywords, diag, orig, cfg,
                   logCalls, reports, file, loaded>>

Next == VisitLogCall \/ VisitOtherCall

Spec == Init /\ [][Next]_vars

----------------------------------------------------------------------------
(* config.Load applied to the files it may find *)

\* my_secret
KwMySecret == <<109, 121, 95, 115, 101, 99, 114, 101, 116>>

\* the rules maps of a file: none, an empty one, the one of TestLoad_ValidYAML,
\* one rule or an unknown name switched off
FileRules ==
    {[nil |-> TRUE, m |-> <<>>],
     [nil |-> FALSE, m |-> <<>>],
     [nil |-> FALSE,
      m |-> [n \in {RuleSensitive, RuleLowercase} |-> n = RuleLowercase]]}
    \cup
    {[nil |-> FALSE, m |-> [n \in {off} |-> FALSE]] : off \in RuleNames \cup {"nonexistent_rule"}}

FileKeywords == {<<>>, <<KwMySecret>>, <<KwMySecret, defaultSensitiveKeywords[1]>>}

FileAllowed == {<<>>, <<33>>, <<128640, 42>>}

Files ==
    {FileOf(k, [nil |-> TRUE, m |-> <<>>], <<>>, <<>>) :
        k \in {"missing", "unreadable", "invalid"}}
    \cup
    {FileOf("valid", r, k, a) : r \in FileRules, k \in FileKeywords, a \in FileAllowed}

InitLoad ==
    /\ rule = "none"
    /\ pc = "load"
    /\ msg = <<>> /\ allowedExtra = <<>> /\ fullExpr = <<>> /\ keywords = <<>>
    /\ diag = <<>>
    /\ orig = [msg |-> <<>>, diag |-> <<>>]
    /\ cfg = DefaultConfig
    /\ calls = <<>>
    /\ logCalls = <<>>
    /\ reports = <<>>
    /\ file \in Files
    /\ loaded = NotLoaded

LoadConfig ==
    /\ pc = "load"
    /\ loaded' = Load(file)
    /\ pc' = "loaded"
    /\ UNCHANGED <<rule, msg, allowedExtra, fullExpr, keywords, diag, orig, cfg, calls,
                   logCalls, reports, file>>

NextLoad == LoadConfig

SpecLoad == InitLoad /\ [][NextLoad]_vars

----------------------------------------------------------------------------
(* Properties of the rule functions *)

\* the raw expression is empty or one double-quoted literal: no identifier text
LiteralOnly(e) ==
    \/ e = <<>>
    \/ /\ Len(e) >= 2 /\ e[1] = 34 /\ e[Len(e)] = 34
       /\ \A i \in 2..(Len(e) - 1) : e[i] \notin {34, 92, 96}

\* the token at index i of toks equals kw and is not followed by a safe token
Unsuppressed(toks, i, kw) ==
    /\ toks[i] = kw
    /\ ~(i + 1 <= Len(toks) /\ toks[i + 1] \in safeNext)

C5_Lowercase ==
    (rule = RuleLowercase /\ pc = "checked") =>
        /\ (msg # <<>> /\ msg[1] # BadByte /\ IsUpper(msg[1]))
              => diag = <<MsgLowercase>>
        /\ ( /\ msg # <<>> /\ msg[1] # BadByte
             /\ IsLowerLetter(msg[1]) \/ IsDigit(msg[1]) \/ IsPunct(msg[1]) )
              => diag = <<>>
        /\ (\A i \in 1..Len(msg) : msg[i] # BadByte /\ IsSpace(msg[i])) => diag = <<>>
        /\ (msg # <<>> /\ msg[1] = BadByte) => diag = <<>>

C5_Witness ==
    /\ rule = RuleLowercase /\ pc = "checked"
    /\ Len(msg) = 3 /\ msg[1] = 1047 /\ msg[2] = 65
    /\ diag = <<MsgLowercase>>

\* C6: CheckEnglish passes every string whose code points are <= 0x7F or
\* among the seven typographic characters, violates on every other string,
\* and then names the earliest offending character and the script of its
\* code-point range.
C6_English ==
    (rule = RuleEnglish /\ pc = "checked") =>
        LET rs == Runes(msg)
            typographic == {8211, 8212, 8216, 8217, 8220, 8221, 8230}
            bad == {i \in 1..Len(rs) : rs[i] > 127 /\ rs[i] \notin typographic}
            first == CHOOSE i \in bad : \A j \in bad : i <= j
            script(r) ==
                CASE r \in 1024..1279 -> "Cyrillic"
                  [] r \in 19968..40959 -> "CJK"
                  [] r \in 1536..1791 -> "Arabic"
                  [] r \in 2304..2431 -> "Devanagari"
                  [] r \in 127744..129791 -> "Emoji"
                  [] OTHER -> "non-Latin"
        IN  /\ (\A i \in 1..Len(rs) : rs[i] <= 127) => diag = <<>>
            /\ bad = {} => diag = <<>>
            /\ bad # {} => diag = <<MsgEnglish, script(rs[first]), rs[first]>>

C6_Witness ==
    /\ rule = RuleEnglish /\ pc = "checked"
    /\ msg = <<97, 8230, 1024>>
    /\ diag = <<MsgEnglish, "Cyrillic", 1024>>

\* the indices of the characters the per-character scan of CheckSpecialChars
\* rejects: emoji-like, or in the default forbidden set and not allow-listed
CharViolations(m, allowed) ==
    {i \in 1..Len(m) :
        \/ isEmoji(Runes(m)[i])
        \/ /\ ContainsRune(defaultForbiddenASCII, Runes(m)[i])
           /\ ~ContainsRune(allowed, Runes(m)[i])}

HasRepeated(m) == \E k \in 1..Len(RepeatedSeqs) : Contains(m, RepeatedSeqs[k])

\* C7: a message with a per-character violation and a repeated sequence gets
\* the per-character diagnostic, citing the earliest violating character.
C7_TieBreak ==
    (rule = RuleSpecial /\ pc = "checked") =>
        LET viol == CharViolations(msg, allowedExtra)
            first == CHOOSE i \in viol : \A j \in viol : i <= j
            r == Runes(msg)[first]
        IN  (viol # {} /\ HasRepeated(msg)) =>
                diag = <<(IF isEmoji(r) THEN MsgEmoji ELSE MsgForbidden), r>>

C7_Witness ==
    /\ rule = RuleSpecial /\ pc = "checked"
    /\ msg = <<46, 46, 46, 33>> /\ allowedExtra = <<>>
    /\ diag = <<MsgForbidden, 33>>

\* C8: no diagnostic of CheckSpecialChars cites a character of allowedExtra or
\* a repeated sequence of such a character; a message that passes with the
\* empty allow-list passes with any, and a message whose violating characters
\* are all allow-listed passes.
C8_AllowedExcluded ==
    (rule = RuleSpecial /\ pc = "checked") =>
        /\ (diag # <<>> /\ diag[1] \in {MsgEmoji, MsgForbidden})
              => ~ContainsRune(allowedExtra, diag[2])
        /\ (diag # <<>> /\ diag[1] = MsgRepeated)
              => ~ContainsRune(allowedExtra, diag[2][1])
        /\ CheckSpecialChars(msg, <<>>) = <<>> => diag = <<>>

\* C4 as stated: after the fix the rule passes, unless the message's only
\* violation was a repeated sequence of safe-set characters.
C4_RoundTrip ==
    (rule = RuleSpecial /\ pc = "rechecked") =>
        \/ diag = <<>>
        \/ /\ orig.diag[1] = MsgRepeated
           /\ \A i \in 1..Len(orig.diag[2]) : orig.diag[2][i] \in SafePunct

\* C4 amended: on the cleaned message the rule never reports an emoji or a
\* forbidden character; it can only report a repeated sequence, either "..."
\* or a sequence of an allow-listed character.
C4_RoundTripAmended ==
    (rule = RuleSpecial /\ pc = "rechecked") =>
        \/ diag = <<>>
        \/ /\ diag[1] = MsgRepeated
           /\ diag[2][1] = 46 \/ ContainsRune(allowedExtra, diag[2][1])

C4_Witness ==
    /\ rule = RuleSpecial /\ pc = "rechecked"
    /\ orig.msg = <<46, 33, 46, 46>> /\ allowedExtra = <<>>
    /\ orig.diag = <<MsgForbidden, 33>>
    /\ msg = <<46, 46, 46>>
    /\ diag = <<MsgRepeated, <<46, 46, 46>>>>

\* C9: with no identifier text in the raw expression, a keyword that occurs
\* in the message only inside a longer token is not reported, and a token
\* equal to a keyword and not followed by a safe token gives a
\* "found in message text" diagnostic.
C9_WholeTokens ==
    (rule = RuleSensitive /\ pc = "checked" /\ LiteralOnly(fullExpr)) =>
        LET lower == ToLowerStr(msg)
            toks == tokenizeWords(lower)
            kw(k) == ToLowerStr(keywords[k])
        IN  /\ \A k \in 1..Len(keywords) :
                  ( /\ kw(k) # <<>> /\ \E j \in 1..Len(kw(k)) : kw(k)[j] # 95
                    /\ Contains(lower, kw(k))
                    /\ \A i \in 1..Len(toks) : toks[i] # kw(k) )
                  => (diag = <<>> \/ diag[2] # kw(k))
            /\ (\E k \in 1..Len(keywords), i \in 1..Len(toks) :
                    Unsuppressed(toks, i, kw(k)))
                  => (diag # <<>> /\ diag[1] = MsgSensitiveText)

\* C10: with no identifier text in the raw expression, the message-text
\* diagnostic is returned exactly when some token equal to a keyword is not
\* immediately followed by a safe-completion token.
C10_PerTokenMatch ==
    (rule = RuleSensitive /\ pc = "checked" /\ LiteralOnly(fullExpr)) =>
        LET toks == tokenizeWords(ToLowerStr(msg))
        IN  (diag # <<>> /\ diag[1] = MsgSensitiveText)
              <=> \E k \in 1..Len(keywords), i \in 1..Len(toks) :
                      Unsuppressed(toks, i, ToLowerStr(keywords[k]))

\* the characters the special-character fix keeps, as C17 lists them
Kept(r, a) ==
    IF ContainsRune(Runes(a), r) THEN TRUE
    ELSE IF r > 127 THEN FALSE
    ELSE IF ContainsRune(defaultForbiddenASCII, r) THEN FALSE
    ELSE IF r \in {45, 95, 47, 58, 46, 44, 32} THEN TRUE
    ELSE ~(IsPunct(r) \/ IsSymbol(r))

\* C17: the cleaned message is the subsequence of the characters of the
\* message that are in the allow-list or, if not, are ASCII, outside the
\* default forbidden set, and either safe punctuation or neither punctuation
\* nor symbol.
C17_CleanSubsequence ==
    (rule = RuleSpecial /\ pc = "fixed") =>
        msg = SelectSeq(Runes(orig.msg), LAMBDA r : Kept(r, allowedExtra))

\* the message-text check of the k-th keyword fires: the keyword alone, with
\* no expression text, gives the "found in message text" diagnostic
TextFires(k) ==
    LET d == CheckSensitive(msg, <<>>, <<keywords[k]>>)
    IN  d # <<>> /\ d[1] = MsgSensitiveText

\* the expression-text check of the k-th keyword fires: the keyword alone,
\* with no message text, gives a diagnostic
ExprFires(k) == CheckSensitive(<<>>, fullExpr, <<keywords[k]>>) # <<>>

\* C12: CheckSensitive returns "" when no check of any keyword fires;
\* otherwise it cites the first keyword of the list for which the
\* message-text or the expression-text check fires, as found in the message
\* text whenever that keyword's message-text check fires.
C12_FirstViolation ==
    (rule = RuleSensitive /\ pc = "checked") =>
        LET F == {k \in 1..Len(keywords) : TextFires(k) \/ ExprFires(k)}
        IN  IF F = {} THEN diag = <<>>
            ELSE LET k0 == CHOOSE k \in F : \A j \in F : k <= j
                 IN  diag = <<IF TextFires(k0) THEN MsgSensitiveText
                              ELSE MsgSensitiveExpr,
                              ToLowerStr(keywords[k0])>>

\* "token" with the expression jwtToken and the keywords auth, token: no
\* check of auth fires, both checks of token fire, and the message text is cited
C12_Witness ==
    /\ rule = RuleSensitive /\ pc = "checked"
    /\ msg = <<116, 111, 107, 101, 110>>
    /\ fullExpr = <<106, 119, 116, 84, 111, 107, 101, 110>>
    /\ keywords = <<(<<97, 117, 116, 104>>), (<<116, 111, 107, 101, 110>>)>>
    /\ ~TextFires(1) /\ ~ExprFires(1)
    /\ TextFires(2) /\ ExprFires(2)
    /\ diag = <<MsgSensitiveText, <<116, 111, 107, 101, 110>>>>

\* the raw expression as the expression-text check compares it: lower-cased,
\* literal contents stripped, underscores and spaces removed
ExprNormalized ==
    ReplaceAll(ReplaceAll(stripStringLiterals(ToLowerStr(fullExpr)), <<95>>, <<>>),
               <<32>>, <<>>)

\* C25 as stated: the expression-text check of a keyword fires exactly when
\* the keyword, lower-cased and with its underscores and spaces removed, is a
\* substring of the normalized raw expression.
C25_ExprNormalized ==
    (rule = RuleSensitive /\ pc = "checked") =>
        \A k \in 1..Len(keywords) :
            ExprFires(k) <=>
                Contains(ExprNormalized,
                         ReplaceAll(ReplaceAll(ToLowerStr(keywords[k]), <<95>>, <<>>),
                                    <<32>>, <<>>))

\* C25 amended: only the underscores of the keyword are removed, its spaces
\* are kept.
C25_ExprNormalizedAmended ==
    (rule = RuleSensitive /\ pc = "checked") =>
        \A k \in 1..Len(keywords) :
            ExprFires(k) <=>
                Contains(ExprNormalized, ReplaceAll(ToLowerStr(keywords[k]), <<95>>, <<>>))

\* the keyword "api key" and the expression "x"apiKey: nothing is reported
C25_Witness ==
    /\ rule = RuleSensitive /\ pc = "checked"
    /\ msg = <<>>
    /\ keywords = <<(<<97, 112, 105, 32, 107, 101, 121>>)>>
    /\ fullExpr = <<34, 120, 34, 97, 112, 105, 75, 101, 121>>
    /\ ~ExprFires(1)
    /\ diag = <<>>

\* C27: with a keyword that is empty once its underscores are removed,
\* CheckSensitive returns a violation whatever the message and the raw
\* expression are; with an empty keyword list it returns "".
C27_EmptyKeyword ==
    (rule = RuleSensitive /\ pc = "checked") =>
        /\ (\E k \in 1..Len(keywords) : \A j \in 1..Len(keywords[k]) : keywords[k][j] = 95)
              => diag # <<>>
        /\ keywords = <<>> => diag = <<>>

\* the keyword "_" with the empty message and the empty expression
C27_Witness ==
    /\ rule = RuleSensitive /\ pc = "checked"
    /\ msg = <<>> /\ fullExpr = <<>>
    /\ keywords = <<(<<95>>)>>
    /\ diag = <<MsgSensitiveExpr, <<95>>>>

----------------------------------------------------------------------------
(* Properties of the pass *)

StartingCall == MethodCall(Callee("Info", PkgSlog), <<LitStarting>>)
PasswordCall ==
    MethodCall(Callee("Info", PkgSlog), <<Binary("ADD", LitUserPassword, VarPassword)>>)

\* "starting Server!!!" with its delimiters
FixedStarting ==
    <<34, 115, 116, 97, 114, 116, 105, 110, 103, 32, 83, 101, 114, 118, 101, 114,
      33, 33, 33, 34>>

KwPassword == <<112, 97, 115, 115, 119, 111, 114, 100>>

\* the lowercase diagnostic of the only call carries the fix "starting Server!!!"
LowercaseDiagWithFix ==
    \E i \in 1..Len(reports) :
        /\ reports[i].Message = <<MsgLowercase>>
        /\ Len(reports[i].SuggestedFixes) = 1
        /\ Len(reports[i].SuggestedFixes[1].TextEdits) = 1
        /\ reports[i].SuggestedFixes[1].TextEdits[1].NewText = FixedStarting

\* C2 as stated: for "Starting Server!!!" under the default configuration the
\* pass reports at least two diagnostics, an uppercase-start one carrying the
\* fix "starting Server!!!" and a repeated-punctuation one.
C2_StartingServer ==
    (cfg = DefaultConfig /\ calls = <<StartingCall>>) =>
        /\ Len(reports) >= 2
        /\ LowercaseDiagWithFix
        /\ \E i \in 1..Len(reports) : reports[i].Message[1] = MsgRepeated

\* C2 amended: the second diagnostic is the forbidden-character violation
\* citing '!'; no repeated-punctuation diagnostic is reported.
C2_StartingServerAmended ==
    (cfg = DefaultConfig /\ calls = <<StartingCall>>) =>
        /\ Len(reports) >= 2
        /\ LowercaseDiagWithFix
        /\ \E i \in 1..Len(reports) : reports[i].Message = <<MsgForbidden, 33>>
        /\ \A i \in 1..Len(reports) : reports[i].Message[1] # MsgRepeated

C2_Witness ==
    /\ cfg = DefaultConfig /\ calls = <<StartingCall>>
    /\ Len(reports) = 2
    /\ reports[1].Message = <<MsgLowercase>>
    /\ reports[2].Message = <<MsgForbidden, 33>>

\* C3 as stated: for "user password: " + password under the default
\* configuration the sensitive diagnostic cites "password" as found in the
\* argument expression.
C3_PasswordInExpression ==
    (cfg = DefaultConfig /\ calls = <<PasswordCall>>) =>
        \E i \in 1..Len(reports) : reports[i].Message = <<MsgSensitiveExpr, KwPassword>>

\* C3 amended: the sensitive diagnostic cites "password" as found in the
\* message text, and no diagnostic cites the argument expression.
C3_PasswordInMessageText ==
    (cfg = DefaultConfig /\ calls = <<PasswordCall>>) =>
        /\ \E i \in 1..Len(reports) : reports[i].Message = <<MsgSensitiveText, KwPassword>>
        /\ \A i \in 1..Len(reports) : reports[i].Message[1] # MsgSensitiveExpr

C3_Witness ==
    /\ cfg = DefaultConfig /\ calls = <<PasswordCall>>
    /\ reports = <<[Pos |-> <<1, "msgArg.Pos">>, End |-> <<1, "msgArg.End">>,
                    Message |-> <<MsgSensitiveText, KwPassword>>,
                    SuggestedFixes |-> <<>>]>>

\* the identifier names of an expression, in source order
RECURSIVE IdentNames(_)
IdentNames(e) ==
    CASE e.kind = "Ident" -> <<e.name>>
      [] e.kind = "BinaryExpr" -> IdentNames(e.x) \o IdentNames(e.y)
      [] e.kind = "ParenExpr" -> IdentNames(e.x)
      [] e.kind = "SelectorExpr" -> IdentNames(e.x) \o IdentNames(e.sel)
      [] e.kind = "CallExpr" ->
            IdentNames(e.fun) \o Concat([i \in 1..Len(e.args) |-> IdentNames(e.args[i])])
      [] OTHER -> <<>>

\* the text of an expression that lies outside its string literals
RECURSIVE OutsideText(_)
OutsideText(e) ==
    CASE e.kind = "BasicLit" -> IF e.litKind = "STRING" THEN <<>> ELSE e.value
      [] e.kind = "Ident" -> e.name
      [] e.kind = "BinaryExpr" -> OutsideText(e.x) \o OutsideText(e.y)
      [] e.kind = "ParenExpr" -> OutsideText(e.x)
      [] e.kind = "SelectorExpr" -> OutsideText(e.x) \o OutsideText(e.sel)
      [] e.kind = "CallExpr" ->
            OutsideText(e.fun) \o Concat([i \in 1..Len(e.args) |-> OutsideText(e.args[i])])
      [] OTHER -> <<>>

\* lower-cased, with underscores and spaces removed
Normalized(s) == ReplaceAll(ReplaceAll(ToLowerStr(s), <<95>>, <<>>), <<32>>, <<>>)

\* the diagnostics reported for the n-th call
ReportsOf(n) == SelectSeq(reports, LAMBDA d : d.Pos[1] = n)

\* C11: an "argument expression" diagnostic cites a keyword only if the
\* keyword occurs in the text of the argument outside its string literals,
\* and an argument with an identifier whose name contains a keyword gets a
\* sensitive-keyword diagnostic whatever its resolved message is.
C11_ExprOutsideLiterals ==
    \A n \in 1..Len(calls) :
        LET lc == extractLogCall(calls[n], n)
            ds == ReportsOf(n)
            kws == cfg.SensitiveKeywords
        IN  (lc.ok /\ IsRuleEnabled(cfg, RuleSensitive)) =>
              /\ \A i \in 1..Len(ds) :
                    ds[i].Message[1] = MsgSensitiveExpr =>
                        Contains(Normalized(OutsideText(lc.msgArg)),
                                 Normalized(ds[i].Message[2]))
              /\ (\E k \in 1..Len(kws), j \in 1..Len(IdentNames(lc.msgArg)) :
                      Contains(Normalized(IdentNames(lc.msgArg)[j]), Normalized(kws[k])))
                    => \E i \in 1..Len(ds) :
                          ds[i].Message[1] \in {MsgSensitiveText, MsgSensitiveExpr}

\* the rule a diagnostic text comes from: 1 lowercase, 2 English,
\* 3 special characters, 4 sensitive keyword
RuleOf(text) ==
    CASE text[1] = MsgLowercase -> 1
      [] text[1] = MsgEnglish -> 2
      [] text[1] \in {MsgEmoji, MsgForbidden, MsgRepeated} -> 3
      [] text[1] \in {MsgSensitiveText, MsgSensitiveExpr} -> 4

\* the diagnostics of the n-th call are in rule order, one per rule at most,
\* and every enabled rule that the call violates has its diagnostic
OrderedReports(n) ==
    LET lc == extractLogCall(calls[n], n)
        ds == ReportsOf(n)
        m == lc.msgLiteral
        expected ==
            [r \in RuleNames |->
                CASE r = RuleLowercase -> CheckLowercase(m)
                  [] r = RuleEnglish -> CheckEnglish(m)
                  [] r = RuleSpecial -> CheckSpecialChars(m, cfg.AllowedSpecialChars)
                  [] r = RuleSensitive ->
                        CheckSensitive(m, lc.fullExpr, cfg.SensitiveKeywords)]
    IN  IF ~lc.ok THEN ds = <<>>
        ELSE /\ Len(ds) <= 4
             /\ \A i, j \in 1..Len(ds) : i < j => RuleOf(ds[i].Message) < RuleOf(ds[j].Message)
             /\ \A r \in RuleNames :
                    (IsRuleEnabled(cfg, r) /\ expected[r] # <<>>)
                        => \E i \in 1..Len(ds) : ds[i].Message = expected[r]

IsPrefix(a, b) == Len(a) <= Len(b) /\ SubSeq(b, 1, Len(a)) = a

FourRuleCall ==
    MethodCall(Callee("Info", PkgSlog),
               <<Binary("ADD", LitCyrillic, Binary("ADD", LitStarting, VarPassword))>>)

\* C13: the diagnostics of every call are reported in the order lowercase,
\* English, special characters, sensitive keyword, at most one per rule and
\* one for every enabled rule the call violates; the diagnostics of the calls
\* follow each other in call order, and every step of the pass leaves the
\* diagnostics reported so far as a prefix of the reported sequence.
C13_OrderedAndGrowing ==
    /\ [](/\ \A n \in 1..Len(calls) : OrderedReports(n)
          /\ \A i, j \in 1..Len(reports) : i < j => reports[i].Pos[1] <= reports[j].Pos[1])
    /\ [][IsPrefix(reports, reports')]_vars

\* a call that violates all four rules, followed by another reported call
C13_Witness ==
    /\ cfg = DefaultConfig
    /\ calls = <<FourRuleCall, StartingCall>>
    /\ Len(reports) = 6
    /\ [i \in 1..4 |-> RuleOf(reports[i].Message)] = <<1, 2, 3, 4>>
    /\ \A i \in 1..4 : reports[i].Pos[1] = 1
    /\ reports[5].Pos[1] = 2 /\ reports[6].Pos[1] = 2

\* the configuration maps the rule name to false
MappedFalse(c, name) ==
    /\ ~c.Rules.nil
    /\ name \in DOMAIN c.Rules.m
    /\ c.Rules.m[name] = FALSE

RuleNameOf(text) ==
    CASE RuleOf(text) = 1 -> RuleLowercase
      [] RuleOf(text) = 2 -> RuleEnglish
      [] RuleOf(text) = 3 -> RuleSpecial
      [] RuleOf(text) = 4 -> RuleSensitive

\* the configuration with a nil Rules map: no rule is mapped to false
NilRules(c) == [c EXCEPT !.Rules = [nil |-> TRUE, m |-> <<>>]]

\* C14: the diagnostics of a call are those it gets when no rule is mapped
\* to false, less the diagnostics of the rules the configuration maps to
\* false: a rule whose name is absent from the map, or any rule under a nil
\* map, reports as usual, and a rule mapped to false reports nothing.
C14_RuleEnabled ==
    \A n \in 1..Len(calls) :
        LET lc == extractLogCall(calls[n], n)
        IN  lc.ok =>
              ReportsOf(n) =
                  SelectSeq(analyseCall(NilRules(cfg), lc),
                            LAMBDA d : ~MappedFalse(cfg, RuleNameOf(d.Message)))

\* the map holds "lowercase": false only; "Starting Server!!!" gets the
\* special-character diagnostic and no lowercase diagnostic
C14_Witness ==
    /\ cfg.Rules = [nil |-> FALSE, m |-> [n \in {RuleLowercase} |-> FALSE]]
    /\ calls = <<StartingCall>>
    /\ Len(reports) = 1
    /\ reports[1].Message = <<MsgForbidden, 33>>

\* C15: a diagnostic with a suggested fix is a lowercase or special-character
\* diagnostic of a call whose message argument is a string literal node.
C15_FixOnlyForLiteral ==
    \A i \in 1..Len(reports) :
        reports[i].SuggestedFixes # <<>> =>
            LET arg == calls[reports[i].Pos[1]].args[1]
            IN  /\ arg.kind = "BasicLit" /\ arg.litKind = "STRING"
                /\ RuleOf(reports[i].Message) \in {1, 3}

\* ("Starting Server!!!") in parentheses: both diagnostics, neither with a fix
C15_Witness ==
    /\ cfg = DefaultConfig
    /\ calls = <<MethodCall(Callee("Info", PkgSlog), <<Paren(LitStarting)>>)>>
    /\ Len(reports) = 2
    /\ reports[1].Message = <<MsgLowercase>> /\ reports[1].SuggestedFixes = <<>>
    /\ reports[2].Message = <<MsgForbidden, 33>> /\ reports[2].SuggestedFixes = <<>>

\* C16: the replacement text of a lowercase fix is the source text of the
\* literal with the first character of its content replaced by its lower-case
\* form: the same length, and every other character, the delimiters and the
\* escape sequences included, as in the source.
C16_LowercaseFixFrame ==
    \A i \in 1..Len(reports) :
        (RuleOf(reports[i].Message) = 1 /\ reports[i].SuggestedFixes # <<>>) =>
            LET src == calls[reports[i].Pos[1]].args[1].value
                new == reports[i].SuggestedFixes[1].TextEdits[1].NewText
            IN  /\ Len(new) = Len(src)
                /\ new[2] = ToLower(src[2])
                /\ \A j \in 1..Len(src) : j # 2 => new[j] = src[j]

\* the declaring packages C18 lists: log/slog, go.uber.org/zap and
\* go.uber.org/zap/zaptest, each with the paths under it, and "log" itself
Recognized(pkg) ==
    \/ pkg = PkgLog
    \/ \E base \in {PkgSlog, PkgZap, PkgZaptest} :
          pkg = base \/ HasPrefix(pkg, base \o <<47>>)

\* C18: a call of a logging method on "Starting Server!!!" is reported under
\* the default rule map exactly when the method's declaring package is one
\* of the recognized ones.
C18_RecognizedPackages ==
    \A n \in 1..Len(calls) :
        LET c == calls[n]
        IN  ( /\ cfg.Rules = DefaultConfig.Rules
              /\ c.isSelector /\ isLogMethod(c.callee.method)
              /\ c.callee.uses /\ c.callee.hasPkg
              /\ c.args = <<LitStarting>> )
            => (ReportsOf(n) # <<>> <=> Recognized(c.callee.pkg))

\* the n-th call has yielded a logCall descriptor
Yielded(n) == \E i \in 1..Len(logCalls) : logCalls[i].pos = <<n, "call">>

\* C19: a call yields a logCall exactly when its callee is a member access
\* with a logging-method name that resolves to a supported package and the
\* call has an argument; the descriptor's message argument then is the
\* call's first argument, and a call that yields none has no diagnostic.
C19_LogCallExactlyWhen ==
    \A n \in 1..Len(calls) :
        LET c == calls[n]
        IN  /\ Yielded(n) <=>
                  ( /\ c.isSelector
                    /\ isLogMethod(c.callee.method)
                    /\ c.callee.uses
                    /\ c.callee.hasPkg
                    /\ isSupportedPackage(c.callee.pkg)
                    /\ Len(c.args) >= 1 )
            /\ \A i \in 1..Len(logCalls) :
                  logCalls[i].pos = <<n, "call">> =>
                      /\ 0 < Len(c.args)
                      /\ logCalls[i].msgArg = c.args[0 + 1]
            /\ ~Yielded(n) => ReportsOf(n) = <<>>

\* slog.Info() with no argument is skipped, and the call after it is classified
C19_Witness ==
    /\ cfg = DefaultConfig
    /\ calls = <<MethodCall(Callee("Info", PkgSlog), <<>>), StartingCall>>
    /\ Len(logCalls) = 1
    /\ logCalls[1].pos = <<2, "call">>
    /\ logCalls[1].msgArg = LitStarting
    /\ ReportsOf(1) = <<>>
    /\ Len(ReportsOf(2)) = 2

\* C21: the lowercase diagnostic of a call whose message argument is a string
\* literal carries a fix, and the message the fixed literal resolves to
\* passes CheckLowercase.
C21_LowercaseFixOffered ==
    \A i \in 1..Len(reports) :
        LET arg == calls[reports[i].Pos[1]].args[1]
        IN  (RuleOf(reports[i].Message) = 1 /\ arg.kind = "BasicLit" /\ arg.litKind = "STRING")
            => /\ reports[i].SuggestedFixes # <<>>
               /\ CheckLowercase(
                      UnquoteLit(reports[i].SuggestedFixes[1].TextEdits[1].NewText)) = <<>>

\* the operands of the chain of + and parentheses an expression is, left to
\* right
RECURSIVE Operands(_)
Operands(e) ==
    CASE e.kind = "BinaryExpr" -> IF e.op = "ADD" THEN Operands(e.x) \o Operands(e.y)
                                  ELSE <<e>>
      [] e.kind = "ParenExpr" -> Operands(e.x)
      [] OTHER -> <<e>>

\* what one operand contributes to the literal value
Contribution(e) ==
    IF e.kind = "BasicLit" /\ e.litKind = "STRING" THEN UnquoteLit(e.value)
    ELSE IF e.kind = "Ident" /\ e.obj = "const" THEN Trim(ConstString(e.val), 34)
    ELSE <<>>

\* C22: the literal value of a message argument is the concatenation, left
\* to right over the operands of its chain of + and parentheses, of the
\* resolved string literals and the values of the constants; every other
\* operand contributes nothing.
C22_LiteralValue ==
    \A i \in 1..Len(logCalls) :
        LET ops == Operands(logCalls[i].msgArg)
        IN  logCalls[i].msgLiteral = Concat([j \in 1..Len(ops) |-> Contribution(ops[j])])

\* (Greeting + x) + "ok " resolves to "Hello!ok "
C22_Witness ==
    /\ Len(calls) = 1 /\ Len(logCalls) = 1
    /\ logCalls[1].msgArg = Binary("ADD", Paren(Binary("ADD", ConstGreeting, VarX)), LitOk)
    /\ logCalls[1].msgLiteral = <<72, 101, 108, 108, 111, 33, 111, 107, 32>>

\* the content of a double-quoted literal with its escape sequences for
\* quote, backslash, newline and tab resolved, scanning left to right
RECURSIVE Unescape(_)
Unescape(s) ==
    IF s = <<>> THEN <<>>
    ELSE IF Len(s) >= 2 /\ s[1] = 92 /\ s[2] \in {34, 92, 110, 116}
    THEN <<(CASE s[2] = 34 -> 34 [] s[2] = 92 -> 92 [] s[2] = 110 -> 10 [] s[2] = 116 -> 9)>>
         \o Unescape(SubSeq(s, 3, Len(s)))
    ELSE <<s[1]>> \o Unescape(Tail(s))

\* the string a literal token denotes
Denotes(value) ==
    LET content == SubSeq(value, 2, Len(value) - 1)
    IN  IF value[1] = 96 THEN content ELSE Unescape(content)

\* C23: the message resolved for a string-literal argument is the string the
\* literal denotes.
C23_LiteralDenotes ==
    \A i \in 1..Len(logCalls) :
        LET arg == logCalls[i].msgArg
        IN  (arg.kind = "BasicLit" /\ arg.litKind = "STRING")
            => logCalls[i].msgLiteral = Denotes(arg.value)

\* the arguments of a call as written: separated by ", "
RECURSIVE JoinArgs(_)
JoinArgs(ts) ==
    IF ts = <<>> THEN <<>>
    ELSE IF Len(ts) = 1 THEN ts[1]
    ELSE ts[1] \o <<44, 32>> \o JoinArgs(Tail(ts))

\* the source text of an expression, from its start to its end position, in
\* the file as gofmt writes it
RECURSIVE SourceText(_)
SourceText(e) ==
    CASE e.kind = "BasicLit" -> e.value
      [] e.kind = "Ident" -> e.name
      [] e.kind = "BinaryExpr" ->
            SourceText(e.x) \o <<32, (IF e.op = "ADD" THEN 43 ELSE 45), 32>>
                \o SourceText(e.y)
      [] e.kind = "ParenExpr" -> <<40>> \o SourceText(e.x) \o <<41>>
      [] e.kind = "SelectorExpr" -> SourceText(e.x) \o <<46>> \o SourceText(e.sel)
      [] e.kind = "CallExpr" ->
            SourceText(e.fun) \o <<40>>
                \o JoinArgs([i \in 1..Len(e.args) |-> SourceText(e.args[i])]) \o <<41>>

\* C24: the raw source text of the message argument of a call, which lies
\* within one file of the pass, is the source text of the argument.
C24_RawSourceText ==
    \A i \in 1..Len(logCalls) :
        logCalls[i].fullExpr = SourceText(logCalls[i].msgArg)

\* C26: when the lowercase and the special-character diagnostic of a call
\* both carry a fix, the two edits replace the same range, the lowercase
\* edit changes the first character of the message only and its literal
\* still violates the special-character rule, and the special-character edit
\* keeps the first character and its literal still violates the lowercase
\* rule.
C26_FixesIndependent ==
    \A n \in 1..Len(calls) :
        LET ds == ReportsOf(n) IN
        \A i, j \in 1..Len(ds) :
            ( /\ RuleOf(ds[i].Message) = 1 /\ ds[i].SuggestedFixes # <<>>
              /\ RuleOf(ds[j].Message) = 3 /\ ds[j].SuggestedFixes # <<>> ) =>
                LET e1 == ds[i].SuggestedFixes[1].TextEdits[1]
                    e3 == ds[j].SuggestedFixes[1].TextEdits[1]
                    m == extractLogCall(calls[n], n).msgLiteral
                    c1 == SubSeq(e1.NewText, 2, Len(e1.NewText) - 1)
                    c3 == SubSeq(e3.NewText, 2, Len(e3.NewText) - 1)
                IN  /\ e1.Pos = e3.Pos /\ e1.End = e3.End
                    /\ Tail(c1) = Tail(m)
                    /\ c3 # <<>> /\ c3[1] = m[1]
                    /\ CheckSpecialChars(UnquoteLit(e1.NewText), cfg.AllowedSpecialChars) # <<>>
                    /\ CheckLowercase(UnquoteLit(e3.NewText)) # <<>>

\* "Starting Server!!!": the edits "starting Server!!!" and "Starting Server"
C26_Witness ==
    /\ cfg = DefaultConfig /\ calls = <<StartingCall>>
    /\ Len(reports) = 2
    /\ reports[1].SuggestedFixes[1].TextEdits[1].NewText = FixedStarting
    /\ reports[2].SuggestedFixes[1].TextEdits[1].NewText =
          <<34, 83, 116, 97, 114, 116, 105, 110, 103, 32, 83, 101, 114, 118, 101, 114, 34>>
    /\ reports[1].SuggestedFixes[1].TextEdits[1].Pos
          = reports[2].SuggestedFixes[1].TextEdits[1].Pos

----------------------------------------------------------------------------
(* Properties of config.Load *)

\* C20: a missing file gives the default configuration and no error; an
\* unreadable or unparsable file gives an error and no configuration; a
\* valid file gives no error and a configuration in which every rule the
\* file lists has the file's flag and every other rule is enabled, the
\* keywords are the defaults followed by the file's keywords, and the
\* allowed characters are the file's if it gives any and none otherwise.
C20_Load ==
    pc = "loaded" =>
        CASE file.kind = "missing" -> loaded = [cfg |-> <<DefaultConfig>>, err |-> <<>>]
          [] file.kind \in {"unreadable", "invalid"} ->
                loaded.cfg = <<>> /\ loaded.err # <<>>
          [] file.kind = "valid" ->
                /\ loaded.err = <<>>
                /\ Len(loaded.cfg) = 1
                /\ LET c == loaded.cfg[1]
                       listed(n) == ~file.Rules.nil /\ n \in DOMAIN file.Rules.m
                   IN  /\ ~c.Rules.nil
                       /\ \A n \in RuleNames :
                              /\ n \in DOMAIN c.Rules.m
                              /\ c.Rules.m[n] = IF listed(n) THEN file.Rules.m[n] ELSE TRUE
                       /\ c.SensitiveKeywords =
                              defaultSensitiveKeywords \o file.SensitiveKeywords
                       /\ c.AllowedSpecialChars = file.AllowedSpecialChars

\* the file of TestLoad_ValidYAML, loaded
C20_Witness ==
    /\ pc = "loaded"
    /\ file = FileOf("valid",
                     [nil |-> FALSE,
                      m |-> [n \in {RuleSensitive, RuleLowercase} |-> n = RuleLowercase]],
                     <<KwMySecret>>, <<33>>)
    /\ loaded.err = <<>>
    /\ loaded.cfg[1].Rules.m =
          [n \in RuleNames |-> n # RuleSensitive]
    /\ loaded.cfg[1].SensitiveKeywords = Append(defaultSensitiveKeywords, KwMySecret)
    /\ loaded.cfg[1].AllowedSpecialChars = <<33>>

====
